---- MODULE Spec2Model ----
(***************************************************************************)
(* Model of the retrying agent invoker of "Lab 3/3.2 Text to SQL":         *)
(* SQLHandler (the callback that captures the generated SQL) and           *)
(* invoke_agent (the bounded retry loop with exponential backoff and       *)
(* jitter around agent.invoke); of the knowledge-base cell, with           *)
(* create_knowledge_base_func, and the ingestion cell of "Lab 1/1.3        *)
(* Knowledge Base with Semantic Chunking"; and of                          *)
(* retrieve_and_generate_with_conditional_guardrails of "Lab 2/2.3 Bedrock *)
(* Inference with Guardrails". Each program has its own variables and its  *)
(* own specification.                                                      *)
(*                                                                         *)
(* Texts (fault descriptions, agent outputs, messages) are sequences of    *)
(* tokens; "x in s" of Python is containment of a contiguous subsequence.  *)
(* Times are whole time units; the jitter random.uniform(0, n) is one of   *)
(* 0..n.                                                                   *)
(***************************************************************************)
EXTENDS Integers, Sequences, FiniteSets

\* ------------------------------------------------------------ bounds
\* Largest max_retries a call is made with (the smallest is -1).
MaxRetriesBound == 2
\* Largest base_delay, in time units (the smallest is -1).
MaxBaseDelay == 2
\* Number of on_agent_action callbacks one agent invocation makes at most.
MaxActions == 1

\* ------------------------------------------------------------ values
\* Python's None, where a text or a query is expected.
None == "<None>"

\* The values max_delay is called with, in time units: negative, small
\* enough to cap the second delay, and the default, which caps nothing here.
MaxDelays == {-1, 3, 60}

\* The pairs (base_delay, max_delay) a call is made with: a negative, a
\* small and the largest base_delay with the default max_delay, the largest
\* base_delay with the small max_delay, and a positive base_delay with the
\* negative max_delay.
DelayArguments ==
    {<<-1, 60>>, <<1, 60>>, <<MaxBaseDelay, 60>>, <<MaxBaseDelay, 3>>, <<1, -1>>}

\* Descriptions str(e) of the faults agent.invoke raises.
ThrottlingDesc == <<"An error occurred (", "ThrottlingException", ") when calling InvokeModel">>
TooManyDesc == <<"Too", "many", "requests", ", please wait">>
NearMissDesc == <<"Too", "many", "tokens">>
ValidationDesc == <<"ValidationException:", "malformed input">>
FaultDescs == {ThrottlingDesc, TooManyDesc, NearMissDesc, ValidationDesc}

\* str(KeyError('output')): the fault of response['output'] on a response
\* that has no such key.
KeyErrorDesc == <<"'output'">>

\* The responses agent.invoke returns: with the primary output, or without.
Responses == {[output |-> <<"There are", "541,909", "transactions">>],
              [error |-> <<"no output">>]}

\* The tools and tool inputs of the agent's actions.
Tools == {"sql_db_query", "sql_db_schema"}
ToolInputs == {"SELECT COUNT(*) FROM retail_transactions", "SELECT 1"}

\* ------------------------------------------------------------ state
VARIABLES
    max_retries,     \* argument of invoke_agent
    base_delay,      \* argument of invoke_agent, in time units
    max_delay,       \* argument of invoke_agent, in time units
    pc,              \* where the call is: "loop", "agent", "sleep",
                     \* "after_loop", "returned", "raised"
    attempt,         \* the local attempt
    last_exception,  \* the local last_exception: <<>> is None
    sql_query,       \* handler.sql_query
    delay,           \* the local delay
    result,          \* the pair returned: <<sqlquery, output>>
    invocations,     \* history of the agent.invoke calls made so far: ok with
                     \* the output returned, or not ok with the fault's str(e)
    sleeps,          \* history: the delay of each time.sleep called so far
    actions,         \* on_agent_action callbacks of the running invocation
    captured         \* history: the query the handler was handed during the
                     \* running (or last) invocation, None when there was none

vars == <<max_retries, base_delay, max_delay, pc, attempt, last_exception,
          sql_query, delay, result, invocations, sleeps, actions, captured>>

\* Two invoke_agent calls running concurrently (one thread each).
VARIABLES
    calls,           \* the frame of each call: its arguments and locals, with
                     \* handler a reference into heap
    heap,            \* the SQLHandler objects created so far: heap[r] is the
                     \* sql_query of the object r refers to
    alone            \* history: for each call, the frame and the handler's
                     \* sql_query of the same call run alone on the same
                     \* agent outcomes

concVars == <<calls, heap, alone>>

\* One SQLHandler object of "Lab 3/3.2 Text to SQL" and the callbacks it got.
VARIABLES
    self_sql_query,     \* self.sql_query of the object
    action_log          \* history: the (tool, tool_input) of every
                        \* on_agent_action call made on the object so far

handlerVars == <<self_sql_query, action_log>>

\* The ingestion cell of "Lab 1/1.3 Knowledge Base with Semantic Chunking".
VARIABLES
    ing_pc,          \* where the cell is: "idle", "start", "test", "sleep",
                     \* "get", "ended"
    job_status,      \* job['status'], None before job is assigned
    service_status,  \* the status of the ingestion job at the service, None
                     \* before the job exists
    ing_printed,     \* the lines the cell has printed so far, as a set
    ing_slept,       \* history: the time.sleep calls made since the last
                     \* time a status was obtained from the service
    ing_gaps,        \* history: the values ing_slept had each time a status
                     \* was obtained again, as a set
    ing_polls        \* history: the get_ingestion_job calls made so far,
                     \* counted up to MaxPolls

ingestVars == <<ing_pc, job_status, service_status, ing_printed, ing_slept,
                ing_gaps, ing_polls>>

\* The knowledge-base cell of "Lab 1/1.3 Knowledge Base with Semantic
\* Chunking" and create_knowledge_base_func, which it calls.
VARIABLES
    kb_pc,           \* where the cell is: "idle", "create", "wait", "get_new",
                     \* "save_new", "except", "list", "get_existing",
                     \* "save_existing", "finished", "raised"
    attempt_number,  \* attempt_number of the retry decorator
    kb,              \* the variable kb: a record with knowledgeBaseId and
                     \* name, NoKb while unbound
    kb_fault,        \* the exception in flight or caught as e: <<>> for none,
                     \* <<d>> for a fault of description d
    kb_id,           \* the variable kb_id, None while unbound
    variables,       \* the dictionary variables
    variables_json,  \* the file variables.json
    kb_requests,     \* history: the outcome of every create_knowledge_base
                     \* request issued so far
    kb_waits,        \* history: the milliseconds waited between attempts
    kb_printed,      \* the lines the cell has printed so far, as a set
    json_before,     \* history: variables.json when the cell was entered
    json_writes      \* history: the number of times the cell wrote
                     \* variables.json

kbVars == <<kb_pc, attempt_number, kb, kb_fault, kb_id, variables,
            variables_json, kb_requests, kb_waits, kb_printed, json_before,
            json_writes>>

\* One call of retrieve_and_generate_with_conditional_guardrails of
\* "Lab 2/2.3 Bedrock Inference with Guardrails".
VARIABLES
    rag_pc,          \* where the call is: "idle", "called", "send",
                     \* "returned", "raised"
    rag_args,        \* the arguments metadata_filter, use_guardrails,
                     \* guardrail_id and guardrail_version
    kb_config,       \* the local kb_config, None before it is built
    rag_requests,    \* history: the knowledgeBaseConfiguration of every
                     \* retrieve_and_generate request issued so far
    rag_outcome      \* what the call returned or raised, None before

ragVars == <<rag_pc, rag_args, kb_config, rag_requests, rag_outcome>>

\* The state of the other programs of the repository: each is modelled by
\* its own variables, which stay as they are while another program runs.
nbVars == <<handlerVars, ingestVars, kbVars, ragVars>>

\* The variable kb while it is unbound.
NoKb == [knowledgeBaseId |-> None, name |-> None]

\* The knowledge-base cell is not running.
KbIdle ==
    /\ kb_pc = "idle"
    /\ attempt_number = 0
    /\ kb = NoKb
    /\ kb_fault = <<>>
    /\ kb_id = None
    /\ variables = <<>>
    /\ variables_json = None
    /\ kb_requests = <<>>
    /\ kb_waits = <<>>
    /\ kb_printed = {}
    /\ json_before = None
    /\ json_writes = 0

\* retrieve_and_generate_with_conditional_guardrails is not running.
RagIdle ==
    /\ rag_pc = "idle"
    /\ rag_args = None
    /\ kb_config = None
    /\ rag_requests = <<>>
    /\ rag_outcome = None

\* The ingestion cell is not running.
IngestIdle ==
    /\ ing_pc = "idle"
    /\ job_status = None
    /\ service_status = None
    /\ ing_printed = {}
    /\ ing_slept = <<>>
    /\ ing_gaps = {}
    /\ ing_polls = 0

\* The SQLHandler object on its own is not in use.
HandlerIdle == self_sql_query = None /\ action_log = <<>>

\* No other program of the repository is running.
NbIdle == HandlerIdle /\ IngestIdle /\ KbIdle /\ RagIdle

\* ------------------------------------------------------------ pure functions
RECURSIVE Pow(_, _)
\* b ** e, for e >= 0.
Pow(b, e) == IF e <= 0 THEN 1 ELSE b * Pow(b, e - 1)

\* min(a, b)
Min(a, b) == IF a <= b THEN a ELSE b

\* sub in s: s has sub as a contiguous part.
Contains(s, sub) ==
    \E i \in 0..(Len(s) - Len(sub)) : SubSeq(s, i + 1, i + Len(sub)) = sub

Digits == <<"0", "1", "2", "3", "4", "5", "6", "7", "8", "9">>

RECURSIVE NatStr(_)
\* str(n) for n >= 0, one token per digit.
NatStr(n) == IF n < 10 THEN <<Digits[n + 1]>>
             ELSE NatStr(n \div 10) \o <<Digits[(n % 10) + 1]>>

\* str(n) of an integer.
IntStr(n) == IF n < 0 THEN <<"-">> \o NatStr(-n) ELSE NatStr(n)

\* str(last_exception): last_exception is <<>> for None, <<d>> for a fault
\* of description d.
ExcStr(exc) == IF exc = <<>> THEN <<"None">> ELSE exc[1]

\* Mutant of IsThrottlingText: once a throttled fault was stored, every later
\* fault counts as throttled.
IsThrottlingText_Sticky(s) ==
    \/ Contains(s, <<"ThrottlingException">>)
    \/ Contains(s, <<"Too", "many", "requests">>)
    \/ Contains(ExcStr(last_exception), <<"ThrottlingException">>)
    \/ Contains(ExcStr(last_exception), <<"Too", "many", "requests">>)

\* "ThrottlingException" in s or "Too many requests" in s
IsThrottlingText(s) ==
    \/ Contains(s, <<"ThrottlingException">>)
    \/ Contains(s, <<"Too", "many", "requests">>)

\* The fixed message of the throttling exit.
ThrottlingMessage ==
    <<"Unable to get a response from the agent due to service throttling.",
      "The service is currently experiencing high demand.",
      "Please try again in a few minutes or reduce request frequency.">>

\* Mutant of GenericMessage: the number of invocations made is reported.
GenericMessage_CountsInvocations(n, s) ==
    <<"Unable to get a response from the agent after">> \o IntStr(n + 1)
        \o <<"attempts. Error:">> \o s

\* f"Unable to get a response from the agent after {n} attempts. Error: {s}"
GenericMessage(n, s) ==
    <<"Unable to get a response from the agent after">> \o IntStr(n)
        \o <<"attempts. Error:">> \o s

\* Mutant of ErrorMessage: only the second marker is looked for.
ErrorMessage_OneMarker(exc, retries) ==
    IF Contains(ExcStr(exc), <<"Too", "many", "requests">>)
    THEN ThrottlingMessage
    ELSE <<"Unable to get a response from the agent after">> \o IntStr(retries)
             \o <<"attempts. Error:">> \o ExcStr(exc)

\* The message built after the loop.
ErrorMessage(exc, retries) ==
    IF IsThrottlingText(ExcStr(exc))
    THEN ThrottlingMessage
    ELSE GenericMessage(retries, ExcStr(exc))

\* Mutant of SuccessResult: the captured query is dropped.
SuccessResult_DropsQuery(handler_sql_query, response) ==
    <<None, response.output>>

\* The pair returned on success: (handler.sql_query, response['output']).
SuccessResult(handler_sql_query, response) ==
    <<handler_sql_query, response.output>>

\* Mutant of FailureResult: the captured query is returned with the message.
FailureResult_KeepsQuery(error_message) == <<sql_query, error_message>>

\* The pair returned after the loop: (None, error_message).
FailureResult(error_message) == <<None, error_message>>

\* Mutant of LoopCondition: the first attempt is made whatever max_retries is.
LoopCondition_AtLeastOnce(att, retries) == att <= retries \/ att = 0

\* while attempt <= max_retries
LoopCondition(att, retries) == att <= retries

\* Mutant of RetryLimitReached: the limit is noticed one fault too late.
RetryLimitReached_Late(att, retries) == att > retries + 1

\* Mutant of RetryLimitReached: the limit is noticed one fault too early.
RetryLimitReached_Early(att, retries) == att >= retries

\* if attempt > max_retries: break
RetryLimitReached(att, retries) == att > retries

\* Mutant of NewLastException: the fault is not stored.
NewLastException_NotStored(old, desc) == old

\* Mutant of NewLastException: the first fault is kept.
NewLastException_KeepsFirst(old, desc) == IF old = <<>> THEN <<desc>> ELSE old

\* last_exception = e
NewLastException(old, desc) == <<desc>>

\* Mutant of AfterFault: the retry is made without the sleep.
AfterFault_NoSleep(att, retries) ==
    IF att > retries THEN "after_loop" ELSE "loop"

\* Where the except branch goes after the limit check: out of the loop, or
\* on to the delay and time.sleep.
AfterFault(att, retries) ==
    IF RetryLimitReached(att, retries) THEN "after_loop" ELSE "sleep"

\* The jitter values random.uniform(0, n) returns.
Uniform(n) == 0..n

\* Mutant of ThrottlingDelay: the exponent is attempt, not attempt - 1.
ThrottlingDelay_ExponentOff(base, cap, att, jitter) ==
    Min(base * Pow(4, att) + jitter, cap)

\* Mutant of ThrottlingDelay: the cap is not applied.
ThrottlingDelay_NoCap(base, cap, att, jitter) ==
    base * Pow(4, att - 1) + jitter

\* The delay of the throttling curve.
ThrottlingDelay(base, cap, att, jitter) ==
    Min(base * Pow(4, att - 1) + jitter, cap)

\* Mutant of StandardDelay: the exponent is attempt, not attempt - 1.
StandardDelay_ExponentOff(base, cap, att, jitter) ==
    Min(base * Pow(2, att) + jitter, cap)

\* Mutant of StandardDelay: the cap is not applied.
StandardDelay_NoCap(base, cap, att, jitter) ==
    base * Pow(2, att - 1) + jitter

\* The delay of the standard curve.
StandardDelay(base, cap, att, jitter) ==
    Min(base * Pow(2, att - 1) + jitter, cap)

\* ------------------------------------------------------------ operations
\* invoke_agent is entered: handler = SQLHandler(), attempt = 0,
\* last_exception = None.
Init ==
    /\ max_retries \in -1..MaxRetriesBound
    /\ \E p \in DelayArguments : base_delay = p[1] /\ max_delay = p[2]
    /\ pc = "loop"
    /\ attempt = 0
    /\ last_exception = <<>>
    /\ sql_query = None
    /\ delay = 0
    /\ result = <<>>
    /\ invocations = <<>>
    /\ sleeps = <<>>
    /\ actions = 0
    /\ captured = None
    /\ calls = <<>>
    /\ heap = <<>>
    /\ alone = <<>>
    /\ NbIdle

\* while attempt <= max_retries: ... agent.invoke is called.
BeginAttempt ==
    /\ pc = "loop"
    /\ LoopCondition(attempt, max_retries)
    /\ pc' = "agent"
    /\ actions' = 0
    /\ captured' = None
    /\ UNCHANGED <<max_retries, base_delay, max_delay, attempt, last_exception,
                   sql_query, delay, result, invocations, sleeps,
                   concVars, nbVars>>

\* while attempt <= max_retries is false on entry: the loop body never runs.
LoopExit ==
    /\ pc = "loop"
    /\ ~LoopCondition(attempt, max_retries)
    /\ pc' = "after_loop"
    /\ UNCHANGED <<max_retries, base_delay, max_delay, attempt, last_exception,
                   sql_query, delay, result, invocations, sleeps, actions, captured,
                   concVars, nbVars>>

\* SQLHandler.on_agent_action, called by the agent while it runs.
OnAgentAction(tool, tool_input) ==
    /\ pc = "agent"
    /\ actions < MaxActions
    /\ actions' = actions + 1
    /\ sql_query' = IF tool = "sql_db_query" THEN tool_input ELSE sql_query
    /\ captured' = IF tool = "sql_db_query" THEN tool_input ELSE captured
    /\ UNCHANGED <<max_retries, base_delay, max_delay, pc, attempt,
                   last_exception, result, delay, invocations, sleeps,
                   concVars, nbVars>>

\* Mutant of HandleException: attempt is not incremented.
HandleException_NoIncrement(desc, jitter) ==
    /\ last_exception' = NewLastException(last_exception, desc)
    /\ attempt' = attempt
    /\ invocations' = Append(invocations, [ok |-> FALSE, text |-> desc])
    /\ pc' = AfterFault(attempt + 1, max_retries)
    /\ IF pc' # "sleep"
       THEN UNCHANGED delay
       ELSE delay' = IF IsThrottlingText(desc)
                   THEN ThrottlingDelay(base_delay, max_delay, attempt + 1, jitter)
                   ELSE StandardDelay(base_delay, max_delay, attempt + 1, jitter)
    /\ UNCHANGED <<max_retries, base_delay, max_delay, sql_query, result,
                   sleeps, actions, captured,
                   concVars, nbVars>>

\* The except branch for a fault of description desc, up to the sleep.
HandleException(desc, jitter) ==
    /\ last_exception' = NewLastException(last_exception, desc)
    /\ attempt' = attempt + 1
    /\ invocations' = Append(invocations, [ok |-> FALSE, text |-> desc])
    /\ pc' = AfterFault(attempt + 1, max_retries)
    /\ IF pc' # "sleep"
       THEN UNCHANGED delay
       ELSE delay' = IF IsThrottlingText(desc)
                   THEN ThrottlingDelay(base_delay, max_delay, attempt + 1, jitter)
                   ELSE StandardDelay(base_delay, max_delay, attempt + 1, jitter)
    /\ UNCHANGED <<max_retries, base_delay, max_delay, sql_query, result,
                   sleeps, actions, captured,
                   concVars, nbVars>>

\* The jitter drawn for a fault of description desc.
JitterOf(desc) == IF IsThrottlingText(desc) THEN Uniform(2) ELSE Uniform(1)

\* agent.invoke raises an Exception of description desc.
AgentRaises(desc) ==
    /\ pc = "agent"
    /\ \E jitter \in JitterOf(desc) : HandleException(desc, jitter)

\* Mutant of AgentReturns: the success does not return, the loop goes on.
AgentReturns_KeepsLooping(response) ==
    /\ pc = "agent"
    /\ IF "output" \in DOMAIN response
       THEN /\ result' = SuccessResult(sql_query, response)
            /\ pc' = "loop"
            /\ invocations' = Append(invocations,
                                     [ok |-> TRUE, text |-> response.output])
            /\ UNCHANGED <<max_retries, base_delay, max_delay, attempt,
                           last_exception, sql_query, delay, sleeps, actions,
                           captured,
                   concVars, nbVars>>
       ELSE \E jitter \in JitterOf(KeyErrorDesc) :
                HandleException(KeyErrorDesc, jitter)

\* agent.invoke returns response: output = response['output'] and the pair
\* is returned, or the lookup raises KeyError inside the try.
AgentReturns(response) ==
    /\ pc = "agent"
    /\ IF "output" \in DOMAIN response
       THEN /\ result' = SuccessResult(sql_query, response)
            /\ pc' = "returned"
            /\ invocations' = Append(invocations,
                                     [ok |-> TRUE, text |-> response.output])
            /\ UNCHANGED <<max_retries, base_delay, max_delay, attempt,
                           last_exception, sql_query, delay, sleeps, actions,
                           captured,
                   concVars, nbVars>>
       ELSE \E jitter \in JitterOf(KeyErrorDesc) :
                HandleException(KeyErrorDesc, jitter)

\* time.sleep(delay): raises ValueError for a negative delay, and the
\* ValueError, raised inside the except branch, leaves invoke_agent.
Sleep ==
    /\ pc = "sleep"
    /\ sleeps' = Append(sleeps, delay)
    /\ pc' = IF delay < 0 THEN "raised" ELSE "loop"
    /\ UNCHANGED <<max_retries, base_delay, max_delay, attempt, last_exception,
                   sql_query, delay, result, invocations, actions,
                   captured,
                   concVars, nbVars>>

\* After the loop: the error message is built and (None, error_message)
\* is returned.
ReturnFailure ==
    /\ pc = "after_loop"
    /\ result' = FailureResult(ErrorMessage(last_exception, max_retries))
    /\ pc' = "returned"
    /\ UNCHANGED <<max_retries, base_delay, max_delay, attempt, last_exception,
                   sql_query, delay, invocations, sleeps, actions, captured,
                   concVars, nbVars>>

Next ==
    \/ BeginAttempt
    \/ LoopExit
    \/ \E tool \in Tools, tool_input \in ToolInputs : OnAgentAction(tool, tool_input)
    \/ \E desc \in FaultDescs : AgentRaises(desc)
    \/ \E response \in Responses : AgentReturns(response)
    \/ Sleep
    \/ ReturnFailure

Spec == Init /\ [][Next]_vars

\* The call keeps running: invoke_agent is sequential code whose every step
\* is taken once it can be, and agent.invoke and time.sleep come back.
LiveSpec == Spec /\ WF_vars(Next)

\* The values the state of one invoke_agent call takes.
TypeOK ==
    /\ max_retries \in -1..MaxRetriesBound
    /\ base_delay \in -1..MaxBaseDelay
    /\ max_delay \in MaxDelays
    /\ pc \in {"loop", "agent", "sleep", "after_loop", "returned", "raised"}
    /\ attempt \in 0..(MaxRetriesBound + 1)
    /\ last_exception \in {<<>>} \cup {<<d>> : d \in FaultDescs \cup {KeyErrorDesc}}
    /\ sql_query \in ToolInputs \cup {None}
    /\ delay \in Int
    /\ Len(result) \in {0, 2}
    /\ Len(invocations) <= MaxRetriesBound + 1
    /\ Len(sleeps) <= MaxRetriesBound
    /\ actions \in 0..MaxActions
    /\ captured \in ToolInputs \cup {None}

\* ------------------------------------------------------------ two calls
\* Largest max_retries of the two concurrent calls.
MaxRetriesConc == 1

\* The default of max_retries.
DefaultMaxRetries == 5

\* The defaults of base_delay and max_delay.
DefaultBaseDelay == 5
DefaultMaxDelay == 60

\* The two calls.
CallIds == {1, 2}

\* The fault descriptions the agent raises in the two-call system.
ConcFaultDescs == {ThrottlingDesc, ValidationDesc}

\* The frame of a call that has not been entered yet.
IdleFrame(retries) ==
    [pc |-> "idle", max_retries |-> retries, base_delay |-> DefaultBaseDelay,
     max_delay |-> DefaultMaxDelay, attempt |-> 0, last_exception |-> <<>>,
     handler |-> 0, delay |-> 0, result |-> <<>>, actions |-> 0]

\* Mutant of NewHandler: one module-level handler serves every call.
NewHandler_Shared(h) ==
    [heap |-> IF h = <<>> THEN <<None>> ELSE h, ref |-> 1]

\* handler = SQLHandler(): a new object, with sql_query = None, and the
\* reference to it.
NewHandler(h) == [heap |-> Append(h, None), ref |-> Len(h) + 1]

\* The except branch on frame c for a fault of description desc.
FrameAfterFault(c, desc, jitter) ==
    LET att == c.attempt + 1
        next == AfterFault(att, c.max_retries)
    IN  [c EXCEPT !.last_exception = NewLastException(c.last_exception, desc),
                  !.attempt = att,
                  !.pc = next,
                  !.delay = IF next # "sleep" THEN c.delay
                            ELSE IF IsThrottlingText(desc)
                            THEN ThrottlingDelay(c.base_delay, c.max_delay, att, jitter)
                            ELSE StandardDelay(c.base_delay, c.max_delay, att, jitter)]

\* One step of invoke_agent on frame c, whose handler's sql_query is q:
\* the frame and the handler's sql_query after the step.
FrameStep(c, q, ev) ==
    CASE ev.kind = "enter" ->
            [c |-> [c EXCEPT !.pc = "loop"], q |-> None]
      [] ev.kind = "loop" ->
            [c |-> IF LoopCondition(c.attempt, c.max_retries)
                   THEN [c EXCEPT !.pc = "agent", !.actions = 0]
                   ELSE [c EXCEPT !.pc = "after_loop"],
             q |-> q]
      [] ev.kind = "action" ->
            [c |-> [c EXCEPT !.actions = c.actions + 1],
             q |-> IF ev.tool = "sql_db_query" THEN ev.tool_input ELSE q]
      [] ev.kind = "raise" ->
            [c |-> FrameAfterFault(c, ev.desc, ev.jitter), q |-> q]
      [] ev.kind = "return" ->
            [c |-> IF "output" \in DOMAIN ev.response
                   THEN [c EXCEPT !.pc = "returned",
                                  !.result = SuccessResult(q, ev.response)]
                   ELSE FrameAfterFault(c, KeyErrorDesc, ev.jitter),
             q |-> q]
      [] ev.kind = "sleep" ->
            [c |-> [c EXCEPT !.pc = IF c.delay < 0 THEN "raised" ELSE "loop"],
             q |-> q]
      [] ev.kind = "fail" ->
            [c |-> [c EXCEPT !.pc = "returned",
                             !.result = FailureResult(
                                 ErrorMessage(c.last_exception, c.max_retries))],
             q |-> q]

\* Call i takes the step ev on its frame and on the handler object its frame
\* refers to; the same step is taken by the call run alone.
CallStep(i, ev) ==
    LET r == calls[i].handler
        after == FrameStep(calls[i], heap[r], ev)
        single == FrameStep(alone[i].c, alone[i].q, ev)
    IN  /\ calls' = [calls EXCEPT ![i] = after.c]
        /\ heap' = [heap EXCEPT ![r] = after.q]
        /\ alone' = [alone EXCEPT ![i] = single]
        /\ UNCHANGED <<vars, nbVars>>

\* The two calls are about to be made, with the default delays: the first
\* with up to MaxRetriesConc retries, the second with a single attempt.
ConcInit ==
    /\ \E n \in 0..MaxRetriesConc :
           calls = [i \in CallIds |-> IdleFrame(IF i = 1 THEN n ELSE 0)]
    /\ heap = <<>>
    /\ alone = [i \in CallIds |-> [c |-> calls[i], q |-> None]]
    /\ max_retries = 0
    /\ base_delay = 0
    /\ max_delay = 0
    /\ pc = "returned"
    /\ attempt = 0
    /\ last_exception = <<>>
    /\ sql_query = None
    /\ delay = 0
    /\ result = <<>>
    /\ invocations = <<>>
    /\ sleeps = <<>>
    /\ actions = 0
    /\ captured = None
    /\ NbIdle

\* Call i is entered: handler = SQLHandler(), attempt = 0,
\* last_exception = None.
ConcEnter(i) ==
    /\ calls[i].pc = "idle"
    /\ LET new == NewHandler(heap)
       IN  /\ heap' = new.heap
           /\ calls' = [calls EXCEPT ![i] = [calls[i] EXCEPT !.pc = "loop",
                                                             !.handler = new.ref]]
    /\ alone' = [alone EXCEPT ![i] = FrameStep(alone[i].c, alone[i].q, [kind |-> "enter"])]
    /\ UNCHANGED <<vars, nbVars>>

\* Call i tests the while condition: agent.invoke is called, or the loop is
\* left.
ConcLoopTest(i) ==
    /\ calls[i].pc = "loop"
    /\ CallStep(i, [kind |-> "loop"])

\* The agent of call i calls on_agent_action of the handler it was given.
ConcOnAgentAction(i, tool, tool_input) ==
    /\ calls[i].pc = "agent"
    /\ calls[i].actions < MaxActions
    /\ CallStep(i, [kind |-> "action", tool |-> tool, tool_input |-> tool_input])

\* agent.invoke of call i raises an Exception of description desc.
ConcAgentRaises(i, desc) ==
    /\ calls[i].pc = "agent"
    /\ \E jitter \in JitterOf(desc) :
           CallStep(i, [kind |-> "raise", desc |-> desc, jitter |-> jitter])

\* agent.invoke of call i returns response.
ConcAgentReturns(i, response) ==
    /\ calls[i].pc = "agent"
    /\ \E jitter \in IF "output" \in DOMAIN response
                      THEN {0} ELSE JitterOf(KeyErrorDesc) :
           CallStep(i, [kind |-> "return", response |-> response, jitter |-> jitter])

\* time.sleep(delay) of call i.
ConcSleep(i) ==
    /\ calls[i].pc = "sleep"
    /\ CallStep(i, [kind |-> "sleep"])

\* Call i builds the error message after the loop and returns.
ConcReturnFailure(i) ==
    /\ calls[i].pc = "after_loop"
    /\ CallStep(i, [kind |-> "fail"])

ConcNext ==
    \/ \E i \in CallIds : ConcEnter(i)
    \/ \E i \in CallIds : ConcLoopTest(i)
    \/ \E i \in CallIds, tool \in Tools, tool_input \in ToolInputs :
           ConcOnAgentAction(i, tool, tool_input)
    \/ \E i \in CallIds, desc \in ConcFaultDescs : ConcAgentRaises(i, desc)
    \/ \E i \in CallIds, response \in Responses : ConcAgentReturns(i, response)
    \/ \E i \in CallIds : ConcSleep(i)
    \/ \E i \in CallIds : ConcReturnFailure(i)

\* Two invoke_agent calls, their steps interleaved in every order.
ConcSpec == ConcInit /\ [][ConcNext]_<<vars, concVars>>

\* ------------------------------------------------------------ histories
\* Every agent.invoke made so far has faulted.
AllFaulted == \A i \in 1..Len(invocations) : ~invocations[i].ok

\* The last agent.invoke made.
LastInvocation == invocations[Len(invocations)]

\* The call has returned after faults only, at least one.
Exhausted == pc = "returned" /\ Len(invocations) > 0 /\ AllFaulted

\* The descriptions that carry one of the two throttling markers.
MarkedDescs == {ThrottlingDesc, TooManyDesc}

\* The outputs the agent's responses carry.
AgentOutputs == {r.output : r \in {x \in Responses : "output" \in DOMAIN x}}

\* m is one of the two terminal failure messages of this call.
IsFailureMessage(m) ==
    \/ m = <<"Unable to get a response from the agent due to service throttling.",
             "The service is currently experiencing high demand.",
             "Please try again in a few minutes or reduce request frequency.">>
    \/ /\ Len(m) >= 2
       /\ m[1] = "Unable to get a response from the agent after"
       /\ Contains(m, <<"attempts. Error:">>)

\* ------------------------------------------------------------ claims

\* C1 (as claimed): invoke_agent never raises: whatever the configuration
\* and the agent's behaviour, no fault leaves the call.
C1_NeverRaises == pc # "raised"

\* C2: when the agent first succeeds on its k-th invocation, k is at most
\* max_retries+1, exactly k invocations and k-1 sleeps were made, nothing
\* follows the success, and the pair returned is (captured artifact, the
\* agent's output), which is no failure message.
C2_SuccessOnKth ==
    \A k \in 1..Len(invocations) :
        invocations[k].ok =>
            /\ k = Len(invocations)
            /\ k <= max_retries + 1
            /\ \A i \in 1..(k - 1) : ~invocations[i].ok
            /\ Len(sleeps) = k - 1
            /\ pc = "returned"
            /\ result = <<sql_query, invocations[k].text>>
            /\ ~IsFailureMessage(result[2])

\* C2 witness: success on the third invocation after two sleeps, with an
\* artifact captured.
C2_Witness ==
    /\ pc = "returned"
    /\ Len(invocations) = 3
    /\ invocations[3].ok
    /\ Len(sleeps) = 2
    /\ result[1] \in ToolInputs
    /\ result[2] \in AgentOutputs

\* C3 (as claimed): if the agent faults on every invocation and
\* max_retries >= 0, the call ends by returning (None, failure message)
\* after exactly max_retries+1 invocations and exactly max_retries sleeps.
C3_AllFaultsExhaust ==
    (/\ pc \in {"returned", "raised"}
     /\ max_retries >= 0
     /\ AllFaulted)
        => /\ pc = "returned"
           /\ Len(invocations) = max_retries + 1
           /\ Len(sleeps) = max_retries
           /\ result[1] = None
           /\ IsFailureMessage(result[2])

\* C4: a call that returns produces exactly one of the two shapes: the
\* output of a successful invocation (with an artifact or None), or None
\* with a terminal failure message after faults only; never both.
C4_OneShape ==
    pc = "returned" =>
        LET success == /\ Len(invocations) > 0
                       /\ LastInvocation.ok
                       /\ result[2] = LastInvocation.text
                       /\ result[1] \in ToolInputs \cup {None}
            failure == /\ AllFaulted
                       /\ result[1] = None
                       /\ IsFailureMessage(result[2])
        IN  /\ Len(result) = 2
            /\ success # failure
            /\ (result[2] \in AgentOutputs) # IsFailureMessage(result[2])

\* C4 witness: a failure result returned although the handler captured a
\* query during a failed invocation.
C4_Witness ==
    /\ Exhausted
    /\ sql_query \in ToolInputs
    /\ result[1] = None
    /\ IsFailureMessage(result[2])

\* C5: every delay handed to time.sleep, on either curve, is at most
\* max_delay.
C5_DelayCapped ==
    /\ \A a \in 1..Len(sleeps) : sleeps[a] <= max_delay
    /\ pc = "sleep" => delay <= max_delay

\* C5 witness: a second delay on the standard curve that the cap cut down:
\* base_delay * 2 alone is above max_delay.
C5_Witness ==
    /\ Len(sleeps) = 2
    /\ invocations[2].text \notin MarkedDescs
    /\ max_delay > 0
    /\ base_delay * 2 > max_delay
    /\ sleeps[2] = max_delay

\* C6: the delay after the a-th failed invocation is
\* min(base_delay * 4^(a-1) + j, max_delay) with j in [0,2] when that
\* fault's description carries a throttling marker, and
\* min(base_delay * 2^(a-1) + j, max_delay) with j in [0,1] otherwise.
C6_DelayFormula ==
    \A a \in 1..Len(sleeps) :
        /\ a <= max_retries
        /\ ~invocations[a].ok
        /\ IF invocations[a].text \in MarkedDescs
           THEN \E j \in 0..2 :
                    sleeps[a] = Min(base_delay * Pow(4, a - 1) + j, max_delay)
           ELSE \E j \in 0..1 :
                    sleeps[a] = Min(base_delay * Pow(2, a - 1) + j, max_delay)

\* C6 witness: first delay with exponent 0 on the standard curve, second
\* delay uncapped on the throttling curve with the largest jitter.
C6_Witness ==
    /\ Len(sleeps) = 2
    /\ base_delay = 2
    /\ invocations[1].text \notin MarkedDescs
    /\ sleeps[1] = 2
    /\ invocations[2].text \in MarkedDescs
    /\ sleeps[2] = 10

\* C7: when the retries are exhausted and the last fault's description
\* contains "ThrottlingException", the message returned is the fixed
\* throttling text, whatever max_retries is, and the description is not
\* in it.
C7_ThrottlingText ==
    (Exhausted /\ Contains(LastInvocation.text, <<"ThrottlingException">>))
        => /\ result[2] = ThrottlingMessage
           /\ ~Contains(result[2], LastInvocation.text)
           /\ ~Contains(result[2], IntStr(max_retries))

\* C7 witness: exhaustion after three invocations, the last one throttled.
C7_Witness ==
    /\ Exhausted
    /\ Len(invocations) = 3
    /\ LastInvocation.text = ThrottlingDesc
    /\ result[2] = ThrottlingMessage

\* C8: when the retries are exhausted and the last fault's description
\* carries no throttling marker, the message returned is the generic text
\* with exactly max_retries and exactly that description in it.
C8_GenericEmbeds ==
    (Exhausted /\ LastInvocation.text \notin MarkedDescs)
        => result[2] = <<"Unable to get a response from the agent after">>
                           \o IntStr(max_retries)
                           \o <<"attempts. Error:">>
                           \o LastInvocation.text

\* C8 witness: exhaustion with max_retries = 2 on a fault without marker
\* whose description begins like a marker.
C8_Witness ==
    /\ Exhausted
    /\ max_retries = 2
    /\ LastInvocation.text = NearMissDesc
    /\ Contains(result[2], <<"2", "attempts. Error:", "Too", "many", "tokens">>)

\* C9 (as claimed): on exhaustion with a fault without marker, the number in
\* "after N attempts" is the number of agent invocations the call made.
C9_ReportsInvocationsMade ==
    (Exhausted /\ LastInvocation.text \notin MarkedDescs)
        => result[2] = <<"Unable to get a response from the agent after">>
                           \o IntStr(Len(invocations))
                           \o <<"attempts. Error:">>
                           \o LastInvocation.text

\* C10: on exhaustion the throttling message is returned if and only if the
\* last fault's description carries a throttling marker, whatever the
\* earlier faults were.
C10_LastFaultDecides ==
    Exhausted =>
        /\ Len(invocations) = max_retries + 1
        /\ (result[2] = ThrottlingMessage)
               <=> (LastInvocation.text \in MarkedDescs)

\* C10 witness: two throttled faults, then a last fault without marker and
\* the generic message.
C10_Witness ==
    /\ Exhausted
    /\ Len(invocations) = 3
    /\ invocations[1].text \in MarkedDescs
    /\ invocations[2].text \in MarkedDescs
    /\ LastInvocation.text \notin MarkedDescs
    /\ result[2] # ThrottlingMessage

\* C11 (as claimed): a fault on an invocation that is not the
\* (max_retries+1)-th is always followed by another invocation, whatever the
\* kind of the fault: the call never ends with a faulted invocation that is
\* not the (max_retries+1)-th as its last one.
C11_EveryFaultRetried ==
    (/\ pc \in {"returned", "raised"}
     /\ Len(invocations) > 0
     /\ ~LastInvocation.ok)
        => Len(invocations) = max_retries + 1

\* C12: a successful invocation ends the call in the same step: it sets the
\* result and returns, no invocation and no sleep follows it, and a result
\* carrying an agent output comes from that exit only.
C12_ReturnsAtOnce ==
    /\ [][/\ (Len(invocations') > Len(invocations) /\ invocations'[Len(invocations')].ok)
              => /\ pc' = "returned"
                 /\ result' = <<sql_query, invocations'[Len(invocations')].text>>
                 /\ sleeps' = sleeps
          /\ (\E i \in 1..Len(invocations) : invocations[i].ok)
              => /\ invocations' = invocations
                 /\ sleeps' = sleeps
                 /\ result' = result
                 /\ pc' = "returned"]_vars
    /\ []((\E i \in 1..Len(invocations) : invocations[i].ok) => pc = "returned")
    /\ []((pc = "returned" /\ ~AllFaulted)
              => /\ LastInvocation.ok
                 /\ result[2] = LastInvocation.text)
    /\ []((pc = "returned" /\ AllFaulted) => result[2] \notin AgentOutputs)

\* C12 witness: the first invocation succeeded and the call has returned
\* before any sleep.
C12_Witness ==
    /\ pc = "returned"
    /\ Len(invocations) = 1
    /\ invocations[1].ok
    /\ sleeps = <<>>
    /\ attempt = 0

\* C14 (as claimed): a pair whose artifact is None is returned only when
\* every attempt failed: with a None artifact the message is one of the two
\* terminal failure messages.
C14_NoneMeansFailure ==
    (pc = "returned" /\ result[1] = None)
        => /\ AllFaulted
           /\ IsFailureMessage(result[2])

\* C14 (amended): a pair whose artifact is None is returned either when
\* every attempt failed, with one of the two terminal failure messages, or
\* when the last invocation succeeded and the handler holds no query, with
\* the agent's output; and after faults only the artifact is always None.
C14_NoneFailureOrNoQuery ==
    pc = "returned" =>
        /\ result[1] = None
               => \/ AllFaulted /\ IsFailureMessage(result[2])
                  \/ /\ ~AllFaulted
                     /\ LastInvocation.ok
                     /\ sql_query = None
                     /\ result[2] = LastInvocation.text
                     /\ ~IsFailureMessage(result[2])
        /\ AllFaulted => result[1] = None
        /\ (~AllFaulted /\ sql_query # None) => result[1] # None

\* C14 witness: a success returned with a None artifact, after a retry.
C14_Witness ==
    /\ pc = "returned"
    /\ Len(invocations) = 2
    /\ LastInvocation.ok
    /\ result[1] = None
    /\ result[2] \in AgentOutputs

\* The number of time.sleep calls that slept (a call with a negative delay
\* raises without sleeping).
SleepsDone == Cardinality({a \in 1..Len(sleeps) : sleeps[a] >= 0})

\* The number of agent.invoke calls that have faulted so far.
FaultsSoFar == Cardinality({i \in 1..Len(invocations) : ~invocations[i].ok})

\* C17: invocations and sleeps alternate, starting with an invocation: a
\* sleep follows a failed invocation at once, an invocation follows the
\* start or a sleep at once, after a sleep the loop condition holds so that
\* the next event is an invocation, and a call with max_retries >= 0 returns
\* right after an invocation, never after a sleep.
C17_Alternation ==
    /\ [][/\ (Len(sleeps') > Len(sleeps) /\ pc' # "raised")
              => /\ Len(invocations) = Len(sleeps) + 1
                 /\ ~LastInvocation.ok
                 /\ invocations' = invocations
                 /\ Len(sleeps') = Len(sleeps) + 1
          /\ Len(invocations') > Len(invocations)
              => /\ Len(invocations) = SleepsDone
                 /\ Len(invocations') = Len(invocations) + 1
                 /\ sleeps' = sleeps]_vars
    /\ []((pc = "loop" /\ SleepsDone > 0)
              => /\ LoopCondition(attempt, max_retries)
                 /\ Len(invocations) = SleepsDone)
    /\ []((pc = "returned" /\ max_retries >= 0)
              => Len(invocations) = SleepsDone + 1)

\* C17 witness: invocation, sleep, invocation, sleep, invocation, return.
C17_Witness ==
    /\ pc = "returned"
    /\ Len(invocations) = 3
    /\ SleepsDone = 2
    /\ AllFaulted

\* C18: with faults of mixed kinds, the delay after the a-th fault is on the
\* curve of that fault's kind alone (base 4 and jitter up to 2 when its
\* description carries a marker, base 2 and jitter up to 1 otherwise), and
\* its exponent is the number of faults so far minus one, whatever their
\* kinds.
C18_CurveOfLastFault ==
    /\ pc = "sleep" =>
          LET n == FaultsSoFar
              marked == LastInvocation.text \in MarkedDescs
              b == IF marked THEN 4 ELSE 2
              top == IF marked THEN 2 ELSE 1
          IN  /\ n = Len(invocations)
              /\ \E j \in 0..top :
                     delay = Min(base_delay * Pow(b, n - 1) + j, max_delay)
    /\ \A a \in 1..Len(sleeps) :
          LET marked == invocations[a].text \in MarkedDescs
              b == IF marked THEN 4 ELSE 2
              top == IF marked THEN 2 ELSE 1
          IN  sleeps[a] \in {Min(base_delay * Pow(b, a - 1) + j, max_delay) : j \in 0..top}

\* C18 witness: a throttled fault whose delay was on the throttling curve
\* with exponent 0, then a fault without marker about to sleep on the
\* standard curve with exponent 1.
C18_Witness ==
    /\ pc = "sleep"
    /\ base_delay = 2
    /\ max_delay = 60
    /\ Len(invocations) = 2
    /\ invocations[1].text \in MarkedDescs
    /\ sleeps = <<4>>
    /\ invocations[2].text \notin MarkedDescs
    /\ delay = 5

\* C20: with max_retries >= 0, attempt is the number of failed invocations
\* so far and lies in 0..max_retries+1; last_exception is None exactly when
\* attempt is 0, and otherwise is the fault of the most recent failed
\* invocation.
C20_AttemptInvariant ==
    max_retries >= 0 =>
        /\ attempt = FaultsSoFar
        /\ 0 <= attempt
        /\ attempt <= max_retries + 1
        /\ (last_exception = <<>>) <=> (attempt = 0)
        /\ attempt > 0 =>
              LET last == CHOOSE i \in 1..Len(invocations) :
                              /\ ~invocations[i].ok
                              /\ \A k \in (i + 1)..Len(invocations) : invocations[k].ok
              IN  last_exception = <<invocations[last].text>>

\* C20 witness: attempt has reached max_retries+1 = 3 and last_exception is
\* the third fault, which differs from the first two.
C20_Witness ==
    /\ max_retries = 2
    /\ attempt = 3
    /\ Len(invocations) = 3
    /\ last_exception = <<ValidationDesc>>
    /\ invocations[1].text = ThrottlingDesc
    /\ invocations[2].text = KeyErrorDesc

\* C13 (as claimed): the artifact returned on success is the query the
\* handler was handed during the successful invocation, None when it was
\* handed none: a query seen only during an earlier, failed invocation is
\* never returned.
C13_ArtifactOfSuccessfulInvocation ==
    (pc = "returned" /\ ~AllFaulted) => result[1] = captured

\* The scenario of C15 has run to its end: max_retries = 2, base_delay = 1,
\* max_delay at its default, every invocation faulted without a marker.
C15_Scenario ==
    /\ max_retries = 2
    /\ base_delay = 1
    /\ max_delay = 60
    /\ pc \in {"returned", "raised"}
    /\ \A i \in 1..Len(invocations) :
           ~invocations[i].ok /\ invocations[i].text \notin MarkedDescs

\* The generic message of the scenario for the last fault's description.
C15_Message ==
    <<None, <<"Unable to get a response from the agent after", "2",
              "attempts. Error:">> \o LastInvocation.text>>

C19_Terminates ==
    /\ <>(pc \in {"returned", "raised"})
    /\ [](LET limit == IF max_retries + 1 > 0 THEN max_retries + 1 ELSE 0
              begun == Len(invocations) + (IF pc = "agent" THEN 1 ELSE 0)
          IN  begun <= limit)

\* C19 witness: a call that ended after max_retries+1 = 3 invocations.
C19_Witness ==
    /\ pc = "returned"
    /\ max_retries = 2
    /\ Len(invocations) = 3
    /\ Len(sleeps) = 2
    /\ ~LastInvocation.ok
    /\ attempt = 3

RECURSIVE SumSlept(_)
\* The time slept by the time.sleep calls of history s: a call with a
\* negative delay raises and sleeps for no time.
SumSlept(s) ==
    IF s = <<>> THEN 0
    ELSE (IF s[1] >= 0 THEN s[1] ELSE 0) + SumSlept(Tail(s))

\* C21: for max_retries >= 0 and max_delay >= 0 the total time slept during
\* one call never exceeds max_retries * max_delay, the delay about to be
\* slept included; with the defaults max_retries = 5 and max_delay = 60 that
\* bound is 300 time units.
C21_TotalSleepBounded ==
    /\ (max_retries >= 0 /\ max_delay >= 0) =>
           /\ SumSlept(sleeps) <= max_retries * max_delay
           /\ pc = "sleep" =>
                  SumSlept(Append(sleeps, delay)) <= max_retries * max_delay
    /\ DefaultMaxRetries * DefaultMaxDelay = 300

\* C21 witness: every retry slept for the whole max_delay, so that the total
\* is exactly max_retries * max_delay, after two sleeps.
C21_Witness ==
    /\ max_retries = 2
    /\ max_delay > 0
    /\ Len(sleeps) = 2
    /\ SumSlept(sleeps) = max_retries * max_delay

\* ------------------------------------------------------------ C22
\* C22: with max_retries < 0 the call never invokes the agent and never
\* sleeps, does not raise, and what it returns is (None, generic failure
\* message) whose error description is the text "None" of no fault at all.
C22_NegativeRetries ==
    max_retries < 0 =>
        /\ invocations = <<>>
        /\ sleeps = <<>>
        /\ last_exception = <<>>
        /\ pc \in {"loop", "after_loop", "returned"}
        /\ pc = "returned" =>
               result = <<None,
                          <<"Unable to get a response from the agent after",
                            "-", "1", "attempts. Error:", "None">>>>

\* C22 witness: a call with max_retries = -1 has returned.
C22_Witness ==
    /\ max_retries = -1
    /\ pc = "returned"
    /\ Len(result) = 2
    /\ invocations = <<>>

\* ------------------------------------------------------------ SQLHandler
\* Number of on_agent_action callbacks one SQLHandler object gets at most.
MaxHandlerActions == 4

\* The state of invoke_agent and of the two-call system when neither runs.
Lab3Idle ==
    /\ max_retries = 0
    /\ base_delay = 0
    /\ max_delay = 0
    /\ pc = "returned"
    /\ attempt = 0
    /\ last_exception = <<>>
    /\ sql_query = None
    /\ delay = 0
    /\ result = <<>>
    /\ invocations = <<>>
    /\ sleeps = <<>>
    /\ actions = 0
    /\ captured = None
    /\ calls = <<>>
    /\ heap = <<>>
    /\ alone = <<>>

\* Mutant of SqlQueryAfterAction: the input of every tool is stored.
SqlQueryAfterAction_AnyTool(q, tool, tool_input) == tool_input

\* self.sql_query after on_agent_action(action) on an object whose
\* sql_query is q: if action.tool == "sql_db_query":
\* self.sql_query = action.tool_input
SqlQueryAfterAction(q, tool, tool_input) ==
    IF tool = "sql_db_query" THEN tool_input ELSE q

\* SQLHandler(): self.sql_query = None.
HandlerInit ==
    /\ self_sql_query = None
    /\ action_log = <<>>
    /\ Lab3Idle
    /\ IngestIdle
    /\ KbIdle
    /\ RagIdle

\* on_agent_action(action) with action.tool = tool and
\* action.tool_input = tool_input.
HandlerOnAgentAction(tool, tool_input) ==
    /\ Len(action_log) < MaxHandlerActions
    /\ self_sql_query' = SqlQueryAfterAction(self_sql_query, tool, tool_input)
    /\ action_log' = Append(action_log, [tool |-> tool, tool_input |-> tool_input])
    /\ UNCHANGED <<vars, concVars, ingestVars, kbVars, ragVars>>

HandlerNext ==
    \E tool \in Tools, tool_input \in ToolInputs :
        HandlerOnAgentAction(tool, tool_input)

\* One SQLHandler object and any sequence of callbacks on it.
HandlerSpec == HandlerInit /\ [][HandlerNext]_handlerVars

\* ------------------------------------------------------------ C23
\* The positions in the log of the actions whose tool is "sql_db_query".
QueryActions == {i \in 1..Len(action_log) : action_log[i].tool = "sql_db_query"}

\* C23: sql_query is None until the first action whose tool is
\* "sql_db_query"; after any sequence of actions it is the tool_input of the
\* most recent "sql_db_query" action, so that an action with any other tool
\* leaves it unchanged.
C23_MostRecentQuery ==
    self_sql_query =
        IF QueryActions = {} THEN None
        ELSE action_log[CHOOSE i \in QueryActions :
                            \A j \in QueryActions : j <= i].tool_input

\* C23 witness: two "sql_db_query" actions with different inputs, then an
\* action with another tool; the second input is the one held.
C23_Witness ==
    /\ Len(action_log) = 3
    /\ action_log[1].tool = "sql_db_query"
    /\ action_log[2].tool = "sql_db_query"
    /\ action_log[1].tool_input # action_log[2].tool_input
    /\ action_log[3].tool # "sql_db_query"
    /\ self_sql_query = action_log[2].tool_input

\* ------------------------------------------------------------ ingestion cell
\* Number of get_ingestion_job calls the history counts.
MaxPolls == 3

\* The seconds the loop sleeps before every get_ingestion_job call.
PollSeconds == 10

\* The statuses an ingestion job has at the service.
JobStatuses == {"STARTING", "IN_PROGRESS", "COMPLETE", "FAILED", "STOPPING", "STOPPED"}

\* The statuses an ingestion job goes to from status s at the service.
JobSuccessors(s) ==
    CASE s = "STARTING" -> {"IN_PROGRESS", "FAILED", "STOPPING"}
      [] s = "IN_PROGRESS" -> {"COMPLETE", "FAILED", "STOPPING"}
      [] s = "STOPPING" -> {"STOPPED"}
      [] OTHER -> {}

\* Mutant of KeepsPolling: the loop is left at every status that ends a job.
KeepsPolling_UntilJobEnds(status) ==
    status \notin {"COMPLETE", "FAILED", "STOPPED"}

\* while(job['status'] != 'COMPLETE')
KeepsPolling(status) == status # "COMPLETE"

\* The cell is run: ingest_jobs = [] and the try block is entered.
IngestInit ==
    /\ ing_pc = "start"
    /\ job_status = None
    /\ service_status = None
    /\ ing_printed = {}
    /\ ing_slept = <<>>
    /\ ing_gaps = {}
    /\ ing_polls = 0
    /\ Lab3Idle
    /\ HandlerIdle
    /\ KbIdle
    /\ RagIdle

\* start_ingestion_job returns the new job: job = start_job_response
\* ["ingestionJob"], and the start is printed.
StartIngestionJob ==
    /\ ing_pc = "start"
    /\ service_status' = "STARTING"
    /\ job_status' = "STARTING"
    /\ ing_printed' = ing_printed \cup {"Ingestion job started successfully"}
    /\ ing_pc' = "test"
    /\ UNCHANGED <<ing_slept, ing_gaps, ing_polls, vars, concVars, handlerVars, kbVars, ragVars>>

\* start_ingestion_job raises: except Exception prints and the cell ends.
StartIngestionJobRaises ==
    /\ ing_pc = "start"
    /\ ing_printed' = ing_printed \cup {"Couldn't start job."}
    /\ ing_pc' = "ended"
    /\ UNCHANGED <<job_status, service_status, ing_slept, ing_gaps, ing_polls,
                   vars, concVars, handlerVars, kbVars, ragVars>>

\* The while condition: "running..." is printed and the body goes on, or
\* the loop is left and "Job completed successfully" is printed.
IngestLoopTest ==
    /\ ing_pc = "test"
    /\ IF KeepsPolling(job_status)
       THEN /\ ing_printed' = ing_printed \cup {"running..."}
            /\ ing_pc' = "sleep"
       ELSE /\ ing_printed' = ing_printed \cup {"Job completed successfully"}
            /\ ing_pc' = "ended"
    /\ UNCHANGED <<job_status, service_status, ing_slept, ing_gaps, ing_polls,
                   vars, concVars, handlerVars, kbVars, ragVars>>

\* time.sleep(10)
IngestSleep ==
    /\ ing_pc = "sleep"
    /\ ing_slept' = Append(ing_slept, PollSeconds)
    /\ ing_pc' = "get"
    /\ UNCHANGED <<job_status, service_status, ing_printed, ing_gaps, ing_polls,
                   vars, concVars, handlerVars, kbVars, ragVars>>

\* get_ingestion_job returns the job as it is at the service:
\* job = get_job_response["ingestionJob"].
GetIngestionJob ==
    /\ ing_pc = "get"
    /\ job_status' = service_status
    /\ ing_gaps' = ing_gaps \cup {ing_slept}
    /\ ing_slept' = <<>>
    /\ ing_polls' = Min(ing_polls + 1, MaxPolls)
    /\ ing_pc' = "test"
    /\ UNCHANGED <<service_status, ing_printed, vars, concVars, handlerVars, kbVars, ragVars>>

\* get_ingestion_job raises: except Exception prints and the cell ends.
GetIngestionJobRaises ==
    /\ ing_pc = "get"
    /\ ing_printed' = ing_printed \cup {"Couldn't start job."}
    /\ ing_pc' = "ended"
    /\ UNCHANGED <<job_status, service_status, ing_slept, ing_gaps, ing_polls,
                   vars, concVars, handlerVars, kbVars, ragVars>>

\* The service moves the job on to status s.
JobProgresses(s) ==
    /\ service_status \in JobStatuses
    /\ s \in JobSuccessors(service_status)
    /\ service_status' = s
    /\ UNCHANGED <<ing_pc, job_status, ing_printed, ing_slept, ing_gaps,
                   ing_polls, vars, concVars, handlerVars, kbVars, ragVars>>

IngestNext ==
    \/ StartIngestionJob
    \/ StartIngestionJobRaises
    \/ IngestLoopTest
    \/ IngestSleep
    \/ GetIngestionJob
    \/ GetIngestionJobRaises
    \/ \E s \in JobStatuses : JobProgresses(s)

\* The ingestion cell and the job at the service.
IngestSpec == IngestInit /\ [][IngestNext]_ingestVars

\* The cell keeps running: it is sequential code whose every step is taken
\* once it can be, and the calls it makes come back.
IngestLiveSpec == IngestSpec /\ WF_ingestVars(IngestNext)

\* ------------------------------------------------------------ C24
\* C24: "Job completed successfully" is printed only if the most recently
\* observed status of the job is COMPLETE, and between two consecutive
\* status checks exactly one sleep, of 10 seconds, occurs.
C24_CompletedOnlyIfComplete ==
    /\ "Job completed successfully" \in ing_printed => job_status = "COMPLETE"
    /\ ing_gaps \subseteq {<<10>>}
    /\ ing_pc = "get" => ing_slept = <<10>>
    /\ ing_pc \in {"test", "sleep"} => ing_slept = <<>>

\* C24 witness: the completion is printed after at least two further status
\* checks, each after one sleep.
C24_Witness ==
    /\ "Job completed successfully" \in ing_printed
    /\ ing_polls >= 2
    /\ ing_gaps = {<<10>>}
    /\ ing_pc = "ended"

\* ------------------------------------------------------------ C25
\* C25 (as claimed): whenever the job reaches a status that ends it
\* (COMPLETE, FAILED or STOPPED) and every get_ingestion_job call returns,
\* the polling loop terminates.
C25_PollingTerminates ==
    (service_status \in {"COMPLETE", "FAILED", "STOPPED"}) ~> (ing_pc = "ended")

\* ------------------------------------------------------------ knowledge-base cell
\* name="advanced-rag-workshop-semantic-chunking"
KbName == "advanced-rag-workshop-semantic-chunking"

\* @retry(wait_random_min=1000, wait_random_max=2000,
\*        stop_max_attempt_number=3)
WaitRandomMin == 1000
WaitRandomMax == 2000
StopMaxAttemptNumber == 3

\* The milliseconds the decorator waits between two attempts: a random
\* value from wait_random_min to wait_random_max, here one of the two ends.
RetryWaits == {WaitRandomMin, WaitRandomMax}

\* Descriptions str(e) of the faults the service calls raise: the name is
\* taken, a message in capitals that speaks of a duplicate, and one that
\* has none of the phrases.
KbConflictDesc ==
    <<"ConflictException:", "KnowledgeBase", "with", "name", "already", "exist", "s">>
KbDuplicateDesc == <<"ValidationException:", "Duplicate", "name">>
KbThrottlingDesc == <<"ThrottlingException:", "Rate", "exceeded">>
KbFaultDescs == {KbConflictDesc, KbDuplicateDesc, KbThrottlingDesc}

\* str(TypeError) of existing_variables["kbSemanticChunk"] = kb_id on a list.
KbTypeErrorDesc == <<"list", "indices", "must", "be", "integers">>

\* The knowledge base create_knowledge_base returns for the name given.
CreatedKb(name) == [knowledgeBaseId |-> "NEWKB00001", name |-> name]

\* The summaries list_knowledge_bases returns: one of the name looked for
\* and one of another name.
NamedSummary == [knowledgeBaseId |-> "IC3ZCBORXT", name |-> KbName]
OtherSummary == [knowledgeBaseId |-> "4P6PBDDEGL",
                 name |-> "advanced-rag-workshop-fixed-chunking"]
ListResponses ==
    {<<>>, <<OtherSummary>>, <<NamedSummary>>,
     <<OtherSummary, NamedSummary>>, <<NamedSummary, OtherSummary>>}

\* The dictionaries variables.json holds and the first cell loads from it.
StoredDicts ==
    {[k \in keys |-> IF k = "regionName" THEN "us-west-2" ELSE "OLDKB00000"] :
        keys \in SUBSET {"regionName", "kbSemanticChunk"}}

\* The dictionary variables when the cell is entered: loaded from
\* variables.json by the first cell, with the keys that cell 1 needs.
LoadedDicts == {d \in StoredDicts : "regionName" \in DOMAIN d}

\* variables.json: missing, not JSON, JSON that is a list, or a JSON object
\* written with some indentation.
MissingFile == [kind |-> "missing", obj |-> <<>>, indent |-> 0]
InvalidFile == [kind |-> "invalid", obj |-> <<>>, indent |-> 0]
ListFile == [kind |-> "list", obj |-> <<>>, indent |-> 0]
ObjectFile(d, n) == [kind |-> "object", obj |-> d, indent |-> n]
JsonFiles == {MissingFile, InvalidFile, ListFile} \cup {ObjectFile(d, 0) : d \in StoredDicts}

\* d[key] = value on a dictionary.
SetKey(d, key, value) ==
    [k \in DOMAIN d \cup {key} |-> IF k = key THEN value ELSE d[k]]

\* json.dump(d, f, indent=4, default=str) into a file opened with "w".
JsonDump(d) == ObjectFile(d, 4)

\* One token of a text in lower case.
LowerToken(t) ==
    CASE t = "ConflictException:" -> "conflictexception:"
      [] t = "KnowledgeBase" -> "knowledgebase"
      [] t = "ValidationException:" -> "validationexception:"
      [] t = "Duplicate" -> "duplicate"
      [] t = "ThrottlingException:" -> "throttlingexception:"
      [] t = "Rate" -> "rate"
      [] OTHER -> t

\* str(e).lower()
Lower(s) == [i \in 1..Len(s) |-> LowerToken(s[i])]

\* any(phrase in error_message for phrase in
\*     ["already exist", "duplicate", "already been created"])
IsAlreadyExists(desc) ==
    \E phrase \in {<<"already", "exist">>, <<"duplicate">>,
                   <<"already", "been", "created">>} :
        Contains(Lower(desc), phrase)

\* Mutant of RetryStops: one more attempt is made.
RetryStops_OneMore(n) == n > StopMaxAttemptNumber

\* stop_max_attempt_number: the decorator gives up after attempt n.
RetryStops(n) == n >= StopMaxAttemptNumber

\* Mutant of ExistingVariables: what the file holds is not read.
ExistingVariables_NotRead(file) == <<>>

\* existing_variables after the try of lines 234-240: json.load of the
\* file, or {} when the file is missing or is not JSON.
ExistingVariables(file) ==
    IF file.kind = "object" THEN file.obj ELSE <<>>

\* The value of the loop variable kb after the for loop over summaries, and
\* whether the loop found the name.
ScanSummaries(summaries, old_kb) ==
    LET named == {i \in 1..Len(summaries) : summaries[i].name = KbName}
    IN  IF named # {}
        THEN [found |-> TRUE,
              kb |-> summaries[CHOOSE i \in named : \A j \in named : i <= j]]
        ELSE [found |-> FALSE,
              kb |-> IF summaries = <<>> THEN old_kb
                     ELSE summaries[Len(summaries)]]

\* The cell is run: the try block is entered and create_knowledge_base_func
\* is called, its first attempt about to be made.
KbInit ==
    /\ kb_pc = "create"
    /\ attempt_number = 1
    /\ kb = NoKb
    /\ kb_fault = <<>>
    /\ kb_id = None
    /\ variables \in LoadedDicts
    /\ variables_json \in JsonFiles
    /\ kb_requests = <<>>
    /\ kb_waits = <<>>
    /\ kb_printed = {}
    /\ json_before = variables_json
    /\ json_writes = 0
    /\ Lab3Idle
    /\ HandlerIdle
    /\ IngestIdle
    /\ RagIdle

\* An attempt of create_knowledge_base_func whose create_knowledge_base
\* request returns: the function returns create_kb_response["knowledgeBase"]
\* and the cell assigns it to kb.
CreateKnowledgeBaseReturns ==
    /\ kb_pc = "create"
    /\ kb_requests' = Append(kb_requests, [ok |-> TRUE, kb |-> CreatedKb(KbName)])
    /\ kb' = CreatedKb(KbName)
    /\ kb_pc' = "get_new"
    /\ UNCHANGED <<attempt_number, kb_fault, kb_id, variables, variables_json,
                   kb_waits, kb_printed, json_before, json_writes,
                   vars, concVars, handlerVars, ingestVars, ragVars>>

\* An attempt whose create_knowledge_base request raises a fault of
\* description desc: the decorator waits and retries, or gives up and
\* raises the fault into the cell.
CreateKnowledgeBaseRaises(desc) ==
    /\ kb_pc = "create"
    /\ kb_requests' = Append(kb_requests, [ok |-> FALSE, desc |-> desc])
    /\ IF RetryStops(attempt_number)
       THEN kb_fault' = <<desc>> /\ kb_pc' = "except"
       ELSE kb_fault' = kb_fault /\ kb_pc' = "wait"
    /\ UNCHANGED <<attempt_number, kb, kb_id, variables, variables_json,
                   kb_waits, kb_printed, json_before, json_writes,
                   vars, concVars, handlerVars, ingestVars, ragVars>>

\* The decorator sleeps ms milliseconds and starts the next attempt.
RetryWait(ms) ==
    /\ kb_pc = "wait"
    /\ kb_waits' = Append(kb_waits, ms)
    /\ attempt_number' = attempt_number + 1
    /\ kb_pc' = "create"
    /\ UNCHANGED <<kb, kb_fault, kb_id, variables, variables_json, kb_requests,
                   kb_printed, json_before, json_writes,
                   vars, concVars, handlerVars, ingestVars, ragVars>>

\* get_knowledge_base of the created knowledge base returns.
GetCreatedReturns ==
    /\ kb_pc = "get_new"
    /\ kb_pc' = "save_new"
    /\ UNCHANGED <<attempt_number, kb, kb_fault, kb_id, variables,
                   variables_json, kb_requests, kb_waits, kb_printed,
                   json_before, json_writes,
                   vars, concVars, handlerVars, ingestVars, ragVars>>

\* get_knowledge_base of the created knowledge base raises.
GetCreatedRaises(desc) ==
    /\ kb_pc = "get_new"
    /\ kb_fault' = <<desc>>
    /\ kb_pc' = "except"
    /\ UNCHANGED <<attempt_number, kb, kb_id, variables, variables_json,
                   kb_requests, kb_waits, kb_printed, json_before, json_writes,
                   vars, concVars, handlerVars, ingestVars, ragVars>>

\* variables["kbSemanticChunk"] = kb['knowledgeBaseId'], variables is
\* written to variables.json and the response is printed.
SaveCreated ==
    /\ kb_pc = "save_new"
    /\ variables' = SetKey(variables, "kbSemanticChunk", kb.knowledgeBaseId)
    /\ variables_json' = JsonDump(variables')
    /\ json_writes' = json_writes + 1
    /\ kb_printed' = kb_printed \cup {"OpenSearch Knowledge Response"}
    /\ kb_pc' = "finished"
    /\ UNCHANGED <<attempt_number, kb, kb_fault, kb_id, kb_requests, kb_waits,
                   json_before,
                   vars, concVars, handlerVars, ingestVars, ragVars>>

\* except Exception as e: the already-exists path is taken, or e is
\* raised again.
ExceptBranch ==
    /\ kb_pc = "except"
    /\ IF IsAlreadyExists(kb_fault[1])
       THEN /\ kb_printed' = kb_printed \cup
                   {"Knowledge Base already exists. Retrieving its ID..."}
            /\ kb_pc' = "list"
       ELSE /\ kb_printed' = kb_printed
            /\ kb_pc' = "raised"
    /\ UNCHANGED <<attempt_number, kb, kb_fault, kb_id, variables,
                   variables_json, kb_requests, kb_waits, json_before,
                   json_writes,
                   vars, concVars, handlerVars, ingestVars, ragVars>>

\* list_knowledge_bases returns summaries and the for loop runs over them:
\* it stops at the first summary of the name, or ends and the else branch
\* prints that none was found.
ListKnowledgeBasesReturns(summaries) ==
    /\ kb_pc = "list"
    /\ LET scan == ScanSummaries(summaries, kb)
       IN  /\ kb' = scan.kb
           /\ IF scan.found
              THEN /\ kb_id' = scan.kb.knowledgeBaseId
                   /\ kb_printed' = kb_printed \cup
                          {"Found existing knowledge base with ID"}
                   /\ kb_pc' = "get_existing"
              ELSE /\ kb_id' = kb_id
                   /\ kb_printed' = kb_printed \cup
                          {"Could not find a knowledge base with the specified name."}
                   /\ kb_pc' = "finished"
    /\ UNCHANGED <<attempt_number, kb_fault, variables, variables_json,
                   kb_requests, kb_waits, json_before, json_writes,
                   vars, concVars, handlerVars, ingestVars, ragVars>>

\* list_knowledge_bases raises, inside the except branch: the fault leaves
\* the cell.
ListKnowledgeBasesRaises(desc) ==
    /\ kb_pc = "list"
    /\ kb_fault' = <<desc>>
    /\ kb_pc' = "raised"
    /\ UNCHANGED <<attempt_number, kb, kb_id, variables, variables_json,
                   kb_requests, kb_waits, kb_printed, json_before, json_writes,
                   vars, concVars, handlerVars, ingestVars, ragVars>>

\* get_knowledge_base of the knowledge base found returns.
GetExistingReturns ==
    /\ kb_pc = "get_existing"
    /\ kb_pc' = "save_existing"
    /\ UNCHANGED <<attempt_number, kb, kb_fault, kb_id, variables,
                   variables_json, kb_requests, kb_waits, kb_printed,
                   json_before, json_writes,
                   vars, concVars, handlerVars, ingestVars, ragVars>>

\* get_knowledge_base of the knowledge base found raises: the fault leaves
\* the cell.
GetExistingRaises(desc) ==
    /\ kb_pc = "get_existing"
    /\ kb_fault' = <<desc>>
    /\ kb_pc' = "raised"
    /\ UNCHANGED <<attempt_number, kb, kb_id, variables, variables_json,
                   kb_requests, kb_waits, kb_printed, json_before, json_writes,
                   vars, concVars, handlerVars, ingestVars, ragVars>>

\* variables.json is read, existing_variables["kbSemanticChunk"] = kb_id,
\* the file is written back, the response is printed and the loop is left.
\* On a file that holds a JSON list the assignment raises TypeError.
SaveExisting ==
    /\ kb_pc = "save_existing"
    /\ IF variables_json.kind = "list"
       THEN /\ kb_fault' = <<KbTypeErrorDesc>>
            /\ kb_pc' = "raised"
            /\ UNCHANGED <<variables_json, json_writes, kb_printed>>
       ELSE /\ variables_json' =
                   JsonDump(SetKey(ExistingVariables(variables_json),
                                   "kbSemanticChunk", kb_id))
            /\ json_writes' = json_writes + 1
            /\ kb_printed' = kb_printed \cup {"OpenSearch Knowledge Response"}
            /\ kb_pc' = "finished"
            /\ UNCHANGED kb_fault
    /\ UNCHANGED <<attempt_number, kb, kb_id, variables, kb_requests, kb_waits,
                   json_before,
                   vars, concVars, handlerVars, ingestVars, ragVars>>

KbNext ==
    \/ CreateKnowledgeBaseReturns
    \/ \E desc \in KbFaultDescs : CreateKnowledgeBaseRaises(desc)
    \/ \E ms \in RetryWaits : RetryWait(ms)
    \/ GetCreatedReturns
    \/ \E desc \in KbFaultDescs : GetCreatedRaises(desc)
    \/ SaveCreated
    \/ ExceptBranch
    \/ \E summaries \in ListResponses : ListKnowledgeBasesReturns(summaries)
    \/ \E desc \in KbFaultDescs : ListKnowledgeBasesRaises(desc)
    \/ GetExistingReturns
    \/ \E desc \in KbFaultDescs : GetExistingRaises(desc)
    \/ SaveExisting

\* The knowledge-base cell, run once.
KbSpec == KbInit /\ [][KbNext]_kbVars

\* ------------------------------------------------------------ C26
\* The last create_knowledge_base request issued.
LastRequest == kb_requests[Len(kb_requests)]

C27_KbIdentifiesNamed ==
    kb_pc = "finished" =>
        /\ kb # NoKb
        /\ kb.name = "advanced-rag-workshop-semantic-chunking"
        /\ variables_json.kind = "object"
        /\ "kbSemanticChunk" \in DOMAIN variables_json.obj
        /\ variables_json.obj["kbSemanticChunk"] = kb.knowledgeBaseId

\* ------------------------------------------------------------ C28
\* The descriptions that carry one of the already-exists phrases.
AlreadyExistsDescs == {KbConflictDesc, KbDuplicateDesc}

\* The cell took the already-exists path.
OnAlreadyExistsPath ==
    "Knowledge Base already exists. Retrieving its ID..." \in kb_printed

\* C28: on the already-exists path a write of variables.json changes only
\* the key kbSemanticChunk: every other key of a readable file keeps its
\* value and no key is added, a missing or invalid file counts as empty;
\* a fault that is not an already-exists fault is raised again, and
\* whenever the cell raises variables.json is left unwritten.
C28_OnlyKbSemanticChunk ==
    /\ (OnAlreadyExistsPath /\ json_writes > 0) =>
           LET before == IF json_before.kind = "object"
                         THEN json_before.obj ELSE <<>>
               after == variables_json.obj
           IN  /\ json_before.kind \in {"object", "missing", "invalid"}
               /\ variables_json.kind = "object"
               /\ json_writes = 1
               /\ DOMAIN after = DOMAIN before \cup {"kbSemanticChunk"}
               /\ \A k \in DOMAIN before \ {"kbSemanticChunk"} :
                      after[k] = before[k]
               /\ after["kbSemanticChunk"] = kb_id
    /\ (kb_fault # <<>> /\ kb_fault[1] \notin AlreadyExistsDescs
            /\ kb_pc # "except") => kb_pc = "raised"
    /\ kb_pc = "raised" => json_writes = 0 /\ variables_json = json_before

\* C28 witness: the already-exists path wrote a file that held another key
\* and an old kbSemanticChunk: the other key is kept, the ID is replaced.
C28_Witness ==
    /\ OnAlreadyExistsPath
    /\ kb_pc = "finished"
    /\ json_writes = 1
    /\ json_before.kind = "object"
    /\ DOMAIN json_before.obj = {"regionName", "kbSemanticChunk"}
    /\ variables_json.obj["regionName"] = json_before.obj["regionName"]
    /\ variables_json.obj["kbSemanticChunk"] = "IC3ZCBORXT"
    /\ json_before.obj["kbSemanticChunk"] # "IC3ZCBORXT"

\* ------------------------------------------------------------ retrieval with guardrails
\* "numberOfResults": 5
NumberOfResults == 5

\* The values of metadata_filter: None, the empty dictionary, and
\* one_group_filter of the notebook.
NoFilter == [isNone |-> TRUE, andAll |-> <<>>]
EmptyFilter == [isNone |-> FALSE, andAll |-> <<>>]
OneGroupFilter ==
    [isNone |-> FALSE,
     andAll |-> <<[key |-> "docType", value |-> "10K Report"],
                  [key |-> "year", value |-> "2023"]>>]
MetadataFilters == {NoFilter, EmptyFilter, OneGroupFilter}

\* The values of guardrail_id and of guardrail_version: None, the empty
\* string and a name.
GuardrailIds == {None, "", "gr-7x2kq9"}
GuardrailVersions == {None, "", "DRAFT"}

\* What retrieve_and_generate returns, and the description of the fault it
\* raises.
RagResponse == "response"
RagFaultDesc == "ValidationException"

\* ValueError("guardrail_id is required when use_guardrails is True")
GuardrailIdRequired == "guardrail_id is required when use_guardrails is True"

\* Mutant of FilterGiven: only None counts as no filter.
FilterGiven_NotNone(f) == ~f.isNone

\* if metadata_filter: neither None nor an empty dictionary.
FilterGiven(f) == ~f.isNone /\ f.andAll # <<>>

\* Mutant of TextGiven: only None counts as no text.
TextGiven_NotNone(s) == s # None

\* if guardrail_version / if not guardrail_id: neither None nor "".
TextGiven(s) == s # None /\ s # ""

\* kb_config["retrievalConfiguration"]["vectorSearchConfiguration"]
VectorSearchConfiguration(args) ==
    IF FilterGiven(args.metadata_filter)
    THEN [numberOfResults |-> NumberOfResults, filter |-> args.metadata_filter]
    ELSE [numberOfResults |-> NumberOfResults]

\* guardrail_config
GuardrailConfig(args) ==
    IF TextGiven(args.guardrail_version)
    THEN [guardrailId |-> args.guardrail_id,
          guardrailVersion |-> args.guardrail_version]
    ELSE [guardrailId |-> args.guardrail_id]

\* kb_config["generationConfiguration"]
GenerationConfiguration(args) ==
    IF args.use_guardrails
    THEN [promptTemplate |-> "textPromptTemplate",
          guardrailConfiguration |-> GuardrailConfig(args)]
    ELSE [promptTemplate |-> "textPromptTemplate"]

\* kb_config as it is handed to retrieve_and_generate.
KbConfig(args) ==
    [knowledgeBaseId |-> "knowledge_base_id",
     modelArn |-> "model_arn",
     retrievalConfiguration |->
         [vectorSearchConfiguration |-> VectorSearchConfiguration(args)],
     generationConfiguration |-> GenerationConfiguration(args)]

\* The function is called with some arguments.
RagInit ==
    /\ rag_pc = "called"
    /\ rag_args \in [metadata_filter : MetadataFilters,
                     use_guardrails : BOOLEAN,
                     guardrail_id : GuardrailIds,
                     guardrail_version : GuardrailVersions]
    /\ kb_config = None
    /\ rag_requests = <<>>
    /\ rag_outcome = None
    /\ Lab3Idle
    /\ HandlerIdle
    /\ IngestIdle
    /\ KbIdle

\* The body up to the API call: kb_config is built, or ValueError is raised
\* for a missing guardrail_id.
BuildKbConfig ==
    /\ rag_pc = "called"
    /\ IF rag_args.use_guardrails /\ ~TextGiven(rag_args.guardrail_id)
       THEN /\ rag_outcome' = GuardrailIdRequired
            /\ rag_pc' = "raised"
            /\ UNCHANGED kb_config
       ELSE /\ kb_config' = KbConfig(rag_args)
            /\ rag_pc' = "send"
            /\ UNCHANGED rag_outcome
    /\ UNCHANGED <<rag_args, rag_requests,
                   vars, concVars, handlerVars, ingestVars, kbVars>>

\* retrieve_and_generate is called with kb_config and returns: the response
\* is returned.
RetrieveAndGenerateReturns ==
    /\ rag_pc = "send"
    /\ rag_requests' = Append(rag_requests, kb_config)
    /\ rag_outcome' = RagResponse
    /\ rag_pc' = "returned"
    /\ UNCHANGED <<rag_args, kb_config,
                   vars, concVars, handlerVars, ingestVars, kbVars>>

\* retrieve_and_generate is called with kb_config and raises: the fault
\* leaves the function.
RetrieveAndGenerateRaises ==
    /\ rag_pc = "send"
    /\ rag_requests' = Append(rag_requests, kb_config)
    /\ rag_outcome' = RagFaultDesc
    /\ rag_pc' = "raised"
    /\ UNCHANGED <<rag_args, kb_config,
                   vars, concVars, handlerVars, ingestVars, kbVars>>

RagNext ==
    \/ BuildKbConfig
    \/ RetrieveAndGenerateReturns
    \/ RetrieveAndGenerateRaises

\* One call of retrieve_and_generate_with_conditional_guardrails.
RagSpec == RagInit /\ [][RagNext]_ragVars

\* ------------------------------------------------------------ C29
\* C29: a call with use_guardrails = True and a missing (None) or empty
\* guardrail_id raises ValueError and no retrieve_and_generate request is
\* issued, before the raise or after.
C29_MissingGuardrailId ==
    (rag_args.use_guardrails /\ rag_args.guardrail_id \in {None, ""}) =>
        /\ rag_requests = <<>>
        /\ rag_pc \in {"called", "raised"}
        /\ rag_pc = "raised" =>
               rag_outcome = "guardrail_id is required when use_guardrails is True"

\* C29 witness: the call with an empty guardrail_id and a guardrail_version
\* given has raised.
C29_Witness ==
    /\ rag_pc = "raised"
    /\ rag_args.use_guardrails
    /\ rag_args.guardrail_id = ""
    /\ rag_args.guardrail_version = "DRAFT"
    /\ rag_requests = <<>>

\* ------------------------------------------------------------ C30
\* The requests built so far: those issued and the one about to be.
RequestsBuilt ==
    {rag_requests[i] : i \in 1..Len(rag_requests)}
        \cup (IF rag_pc = "send" THEN {kb_config} ELSE {})

====
